---- MODULE Spec2Model ----
(***************************************************************************)
(* Model of the GitHub repository token issuer (function/handlers.go,      *)
(* function/validation.go, function/scopes.go).                            *)
(*                                                                         *)
(* Conventions.                                                            *)
(*  - A Go string that the code only compares is a TLA+ string.            *)
(*  - An error is the sequence of the pieces fmt.Errorf joins; the nil     *)
(*    error is the empty sequence.  strings.Contains(err.Error(), p) is    *)
(*    membership of the piece p.                                           *)
(*  - A repository ("owner/repo") is the sequence strings.Split(s, "/")    *)
(*    yields: it contains "/" iff it has at least two segments.            *)
(*  - url.Values (r.URL.Query()) is a function from the parameter names    *)
(*    present to the non-empty sequence of their values.                   *)
(*  - A Go map with string keys is a function on the set of its keys; the  *)
(*    order of a range over a map is not fixed, so a loop that returns on  *)
(*    the first offending key may return for any offending key.            *)
(***************************************************************************)
EXTENDS Integers, Sequences, FiniteSets, TLC

\* ---------------------------------------------------------------- bounds

\* Most values (key=value pairs) one request's query string carries.
MaxParams == 3

\* Longest allow-list of owners handed to ValidateOwnerAllowed
MaxAllowedOwners == 2

\* Requests that call fetchJWKS at the same time
MaxCallers == 2

\* Last value of the clock, in half hours
MaxClock == 4

\* Requests the process serves after the first
MaxRequests == 2

\* Most comma-separated parts of a GITHUB_ALLOWED_OWNERS value
MaxEnvParts == 3

\* ------------------------------------------------------------ scopes.go

ReadWrite == <<"read", "write">>

ReadOnly == <<"read">>

ReadWriteScopeIds ==
  {"actions", "attestations", "checks", "contents", "custom_properties",
   "dependabot_secrets", "deployments", "discussions", "environments",
   "issues", "merge_queues", "packages", "pages", "projects",
   "pull_requests", "secrets", "statuses", "variables", "workflows"}

ReadOnlyScopeIds ==
  {"administration", "code_scanning", "dependabot_alerts", "secret_scanning",
   "security_advisories"}

\* AllowedScopes with write permitted on every scope
AllowedScopesAllWritable ==
  [id \in ReadWriteScopeIds \cup ReadOnlyScopeIds |-> ReadWrite]

\* var AllowedScopes = map[string][]string{...}
AllowedScopes ==
  [id \in ReadWriteScopeIds \cup ReadOnlyScopeIds |->
     IF id \in ReadWriteScopeIds THEN ReadWrite ELSE ReadOnly]

\* BlacklistedScopes denying a scope the permit mapping holds
BlacklistedScopesOverlapping == {"contents"}

\* var BlacklistedScopes = map[string]bool{}: the set of keys mapped to true.
BlacklistedScopes == {}

\* ------------------------------------------------------------- helpers

Nil == <<>>

\* slices.Contains(s, v)
SliceContains(s, v) == \E i \in 1..Len(s) : s[i] = v

\* strings.Contains(err.Error(), piece), on an error held as its pieces
ErrContains(err, piece) == \E i \in 1..Len(err) : err[i] = piece

\* fmt's %v of a []string of levels
LevelsText(levels) ==
  IF levels = ReadWrite THEN "[read write]"
  ELSE IF levels = ReadOnly THEN "[read]"
  ELSE IF levels = <<"write">> THEN "[write]"
  ELSE IF levels = <<>> THEN "[]"
  ELSE "[...]"

\* --------------------------------------------------------- validation.go

ErrScopeNotAllowed(scopeID) == <<"scope '", scopeID, "' is not allowed">>

ErrScopeNotInAllowlist(scopeID) == <<"scope '", scopeID, "' is not in allowlist">>

ErrPermissionNotAllowed(permission, scopeID, allowedLevels) ==
  <<"permission '", permission, "' not allowed for scope '", scopeID,
    "' (allowed: ", LevelsText(allowedLevels), ")">>

\* ScopeCheck consulting the deny-set last
ScopeCheckBlacklistLast(scopeID, permission, allowed, blacklisted) ==
  IF scopeID \notin DOMAIN allowed THEN ErrScopeNotInAllowlist(scopeID)
  ELSE IF ~SliceContains(allowed[scopeID], permission)
       THEN ErrPermissionNotAllowed(permission, scopeID, allowed[scopeID])
  ELSE IF scopeID \in blacklisted THEN ErrScopeNotAllowed(scopeID)
  ELSE Nil

\* The body of ValidateScopes' loop for one entry of the map, against a permit
\* mapping `allowed` (AllowedScopes) and a deny-set `blacklisted`
\* (BlacklistedScopes): the error it returns, or Nil to go on.
ScopeCheck(scopeID, permission, allowed, blacklisted) ==
  IF scopeID \in blacklisted THEN ErrScopeNotAllowed(scopeID)
  ELSE IF scopeID \notin DOMAIN allowed THEN ErrScopeNotInAllowlist(scopeID)
  ELSE IF ~SliceContains(allowed[scopeID], permission)
       THEN ErrPermissionNotAllowed(permission, scopeID, allowed[scopeID])
  ELSE Nil

\* ValidateScopes returning after the first entry of the range, whatever its
\* check says
ValidateScopesWithFirstEntryOnly(scopes, allowed, blacklisted) ==
  IF DOMAIN scopes = {} THEN {Nil}
  ELSE {ScopeCheck(id, scopes[id], allowed, blacklisted) : id \in DOMAIN scopes}

\* ValidateScopes(scopes), as the set of values a call can return: the loop
\* returns at the first entry whose check fails, and the range order over the
\* map is not fixed, so every failing entry's error is a possible result; nil
\* is the result when no entry fails.
ValidateScopesWith(scopes, allowed, blacklisted) ==
  LET errs == {ScopeCheck(id, scopes[id], allowed, blacklisted) :
                 id \in DOMAIN scopes} \ {Nil}
  IN  IF errs = {} THEN {Nil} ELSE errs

ValidateScopes(scopes) ==
  ValidateScopesWith(scopes, AllowedScopes, BlacklistedScopes)

\* strings.TrimSpace on the raw owner parts the model draws
TrimSpace(s) ==
  IF s = " acme " THEN "acme"
  ELSE IF s = "acme " THEN "acme"
  ELSE IF s = " " THEN ""
  ELSE s

RECURSIVE AppendNonEmptyTrimmed(_, _)
AppendNonEmptyTrimmed(owners, parts) ==
  IF parts = <<>> THEN owners
  ELSE LET trimmed == TrimSpace(Head(parts))
       IN  AppendNonEmptyTrimmed(
             IF trimmed # "" THEN Append(owners, trimmed) ELSE owners,
             Tail(parts))

\* ParseAllowedOwners keeping every part, trimmed, the empty ones included
ParseAllowedOwnersEmptyKept(envParts) ==
  [i \in 1..Len(envParts) |-> TrimSpace(envParts[i])]

\* ParseAllowedOwners(), on the value of GITHUB_ALLOWED_OWNERS held as the
\* parts strings.Split(envValue, ",") yields (one empty part when unset).
ParseAllowedOwners(envParts) == AppendNonEmptyTrimmed(<<>>, envParts)

\* "invalid repository format: %s": the repository's segments follow the text
ErrInvalidRepositoryFormat(repository) ==
  <<"invalid repository format: ">> \o repository

ErrOwnerNotAllowed(owner) == <<"repository owner '", owner, "' is not allowed">>

\* ValidateOwnerAllowed without the early return for an empty list
ValidateOwnerAllowedEmptyListChecked(repository, allowedOwners) ==
  IF Len(repository) < 2 THEN ErrInvalidRepositoryFormat(repository)
  ELSE IF \E i \in 1..Len(allowedOwners) : allowedOwners[i] = repository[1]
       THEN Nil
  ELSE ErrOwnerNotAllowed(repository[1])

\* ValidateOwnerAllowed comparing owners without regard to case
\* (strings.EqualFold in place of ==)
ValidateOwnerAllowedFoldedCase(repository, allowedOwners) ==
  LET fold(s) == IF s = "Acme" THEN "acme" ELSE s
  IN  IF Len(allowedOwners) = 0 THEN Nil
      ELSE IF Len(repository) < 2 THEN ErrInvalidRepositoryFormat(repository)
      ELSE IF \E i \in 1..Len(allowedOwners) :
                fold(allowedOwners[i]) = fold(repository[1])
           THEN Nil
      ELSE ErrOwnerNotAllowed(repository[1])

\* ValidateOwnerAllowed(repository, allowedOwners): the error, or Nil.
ValidateOwnerAllowed(repository, allowedOwners) ==
  IF Len(allowedOwners) = 0 THEN Nil
  ELSE IF Len(repository) < 2 THEN ErrInvalidRepositoryFormat(repository)
  ELSE IF \E i \in 1..Len(allowedOwners) : allowedOwners[i] = repository[1]
       THEN Nil
  ELSE ErrOwnerNotAllowed(repository[1])

\* ------------------------------------------------------------ github.go
\* function/github.go is not among the sources; what follows is modelled from
\* its callers (handlers.go), its tests (github_test.go), the README's error
\* catalogue and the specification of the Credential Exchange Protocol.

\* MissingScopes looking only at which scopes are granted, not at what level
MissingScopesLevelIgnored(requested, granted) ==
  {id \in DOMAIN requested : id \notin DOMAIN granted}

\* The requested scopes the granted permissions do not cover: absent, or held
\* at another level than the requested one.
MissingScopes(requested, granted) ==
  {id \in DOMAIN requested :
     id \notin DOMAIN granted \/ granted[id] # requested[id]}

RECURSIVE SetToSeq(_)
SetToSeq(S) ==
  IF S = {} THEN <<>>
  ELSE LET x == CHOOSE y \in S : TRUE IN <<x>> \o SetToSeq(S \ {x})

\* "insufficient permissions ...: missing ..." naming every uncovered scope
ErrInsufficientPermissions(missing) ==
  <<"insufficient permissions", " for scopes, ", "missing", ": ">>
    \o SetToSeq(missing)

\* VerifyRequestedScopes(requested, granted), granted not nil
VerifyRequestedScopes(requested, granted) ==
  LET missing == MissingScopes(requested, granted)
  IN  IF missing = {} THEN Nil ELSE ErrInsufficientPermissions(missing)

ErrNotInstalled(repository) ==
  <<"GitHub App is ", "not installed", " on repository ">> \o repository

ErrFewerScopes == <<"GitHub API returned ", "fewer scopes", " than requested">>

ErrSuspended == <<"GitHub App installation is ", "suspended">>

ErrPrivateKey == <<"failed to retrieve private key from Secret Manager">>

ErrSignJWT == <<"failed to sign JWT">>

\* any other failure of a call to the authority (network, outage, deadline)
ErrAPI == <<"request to api.github.com failed">>

\* a call to the authority cut off by the expiry of the request's context
\* (handlers.go 40: 30 seconds)
ErrDeadline == <<"context deadline exceeded">>

\* The last step of CreateInstallationToken: the token the authority minted is
\* returned only when it carries exactly the requested permissions.
VerifyIssuedToken(requested, issuedPermissions) ==
  IF issuedPermissions = requested THEN Nil ELSE ErrFewerScopes

\* ---------------------------------------------------------- handlers.go

\* A value json.Marshal refuses: make(chan int)
Channel == [chan |-> "int"]

\* The plain-text body written when json.Marshal fails
EncodeFailure == [text |-> "internal server error: failed to encode response"]

\* writeJSON writing the requested status when json.Marshal fails
WriteJSONStatusKept(statusCode, data) ==
  IF data = Channel
  THEN [status |-> statusCode, contentType |-> "text/plain",
        body |-> EncodeFailure]
  ELSE [status |-> statusCode, contentType |-> "application/json",
        body |-> data]

\* writeJSON(w, statusCode, data): the response written
WriteJSON(statusCode, data) ==
  IF data = Channel
  THEN [status |-> 500, contentType |-> "text/plain", body |-> EncodeFailure]
  ELSE [status |-> statusCode, contentType |-> "application/json",
        body |-> data]

\* writeError(w, statusCode, message, details); a nil details map is Nil and
\* is left out of the encoded body (omitempty)
WriteError(statusCode, message, details) ==
  WriteJSON(statusCode, [error |-> message, details |-> details])

\* time.Time.Format(time.RFC3339) of an instant held as seconds of the day:
\* the hour, minute and second fields of the text
FormatRFC3339(t) == <<t \div 3600, (t % 3600) \div 60, t % 60>>

\* TokenResponse{Token, ExpiresAt, Scopes}
TokenResponse(token, scopeMap) ==
  [token |-> token.token, expires_at |-> FormatRFC3339(token.expires),
   scopes |-> scopeMap]

ErrDuplicateScope(param) == <<"duplicate scope '", param, "' in request">>

ErrInvalidPermission(permission, param) ==
  <<"invalid permission '", permission, "' for scope '", param,
    "' (must be 'read' or 'write')">>

ErrNoScopes == <<"at least one scope is required">>

\* ParamCheck refusing only duplicates whose values differ
ParamCheckEqualDuplicatesMerged(param, values) ==
  IF Len(values) > 1 /\ \E i \in 1..Len(values) : values[i] # values[1]
  THEN ErrDuplicateScope(param)
  ELSE IF values[1] # "read" /\ values[1] # "write"
       THEN ErrInvalidPermission(values[1], param)
  ELSE Nil

\* strings.ToLower on the parameter values the model draws
ToLower(s) == IF s = "READ" THEN "read" ELSE s

\* ParamCheck comparing the level without regard to case
ParamCheckFoldedCase(param, values) ==
  IF Len(values) > 1 THEN ErrDuplicateScope(param)
  ELSE IF ToLower(values[1]) # "read" /\ ToLower(values[1]) # "write"
       THEN ErrInvalidPermission(values[1], param)
  ELSE Nil

\* The body of the parsing loop for one parameter (handlers.go 71-84): the
\* error it answers with, or Nil when it stores values[0] and goes on.
ParamCheck(param, values) ==
  IF Len(values) > 1 THEN ErrDuplicateScope(param)
  ELSE IF values[1] # "read" /\ values[1] # "write"
       THEN ErrInvalidPermission(values[1], param)
  ELSE Nil

\* The scope map the loop builds when no parameter is refused
ScopesOf(q) == [param \in DOMAIN q |-> q[param][1]]

\* ParseScopes without the test for an empty map
ParseScopesEmptyAccepted(q) ==
  LET errs == {ParamCheck(param, q[param]) : param \in DOMAIN q} \ {Nil}
  IN  IF errs # {} THEN {[err |-> e, scopes |-> Nil] : e \in errs}
      ELSE {[err |-> Nil, scopes |-> ScopesOf(q)]}

\* ParseScopes leaving the loop at a refused parameter without answering, with
\* the scopes stored so far
ParseScopesStoppedAtRefusal(q) ==
  LET good == {param \in DOMAIN q : ParamCheck(param, q[param]) = Nil}
  IN  IF good # DOMAIN q
      THEN {[err |-> Nil, scopes |-> [param \in D |-> q[param][1]]] :
              D \in SUBSET good}
      ELSE IF Cardinality(DOMAIN q) = 0
           THEN {[err |-> ErrNoScopes, scopes |-> Nil]}
      ELSE {[err |-> Nil, scopes |-> ScopesOf(q)]}

\* Scope parsing (handlers.go 68-93) as the set of its possible outcomes: the
\* loop answers 400 at the first refused parameter of the range over
\* r.URL.Query(), whose order is not fixed; with no parameter refused, an
\* empty map answers 400 and any other map goes on to validation.
ParseScopes(q) ==
  LET errs == {ParamCheck(param, q[param]) : param \in DOMAIN q} \ {Nil}
  IN  IF errs # {} THEN {[err |-> e, scopes |-> Nil] : e \in errs}
      ELSE IF Cardinality(DOMAIN q) = 0
           THEN {[err |-> ErrNoScopes, scopes |-> Nil]}
      ELSE {[err |-> Nil, scopes |-> ScopesOf(q)]}

\* InstallationErrorResponse taking every failure for an outage
InstallationErrorResponseAlwaysUnavailable(e) ==
  WriteError(503, <<"GitHub API error: ">> \o e, Nil)

\* The answer to GetInstallationID's error (handlers.go 134-141)
InstallationErrorResponse(e) ==
  IF ErrContains(e, "not installed") THEN WriteError(403, e, Nil)
  ELSE WriteError(503, <<"GitHub API error: ">> \o e, Nil)

\* ExchangeResponse with the "fewer scopes" error taken for a success
ExchangeResponseMismatchIgnored(token, e, scopeMap) ==
  IF e # Nil /\ ~ErrContains(e, "fewer scopes")
  THEN IF \/ ErrContains(e, "insufficient permissions")
          \/ ErrContains(e, "suspended")
       THEN WriteError(403, e, Nil)
       ELSE WriteError(503, <<"GitHub API error: ">> \o e, Nil)
  ELSE WriteJSON(200, TokenResponse(token, scopeMap))

\* ExchangeResponse taking a suspended installation for an outage
ExchangeResponseSuspendedUnavailable(token, e, scopeMap) ==
  IF e # Nil
  THEN IF \/ ErrContains(e, "insufficient permissions")
          \/ ErrContains(e, "fewer scopes")
       THEN WriteError(403, e, Nil)
       ELSE WriteError(503, <<"GitHub API error: ">> \o e, Nil)
  ELSE WriteJSON(200, TokenResponse(token, scopeMap))

\* ExchangeResponse taking an expired deadline for a refusal
ExchangeResponseDeadlineForbidden(token, e, scopeMap) ==
  IF e # Nil
  THEN IF \/ ErrContains(e, "insufficient permissions")
          \/ ErrContains(e, "fewer scopes")
          \/ ErrContains(e, "suspended")
          \/ ErrContains(e, "context deadline exceeded")
       THEN WriteError(403, e, Nil)
       ELSE WriteError(503, <<"GitHub API error: ">> \o e, Nil)
  ELSE WriteJSON(200, TokenResponse(token, scopeMap))

\* The answer after CreateInstallationToken returned (handlers.go 145-163)
ExchangeResponse(token, e, scopeMap) ==
  IF e # Nil
  THEN IF \/ ErrContains(e, "insufficient permissions")
          \/ ErrContains(e, "fewer scopes")
          \/ ErrContains(e, "suspended")
       THEN WriteError(403, e, Nil)
       ELSE WriteError(503, <<"GitHub API error: ">> \o e, Nil)
  ELSE WriteJSON(200, TokenResponse(token, scopeMap))

\* The repository claim of a verified token (validation.go 158-175): the
\* claim is [isString, value]; the empty string splits into one empty segment.
ExtractRepository(claim) ==
  IF ~claim.isString \/ claim.value = <<"">>
  THEN [repository |-> <<"">>,
        err |-> <<"repository claim not found in OIDC token">>]
  ELSE IF Len(claim.value) < 2
  THEN [repository |-> <<"">>, err |-> ErrInvalidRepositoryFormat(claim.value)]
  ELSE [repository |-> claim.value, err |-> Nil]

\* What fetchJWKS returns to ValidateAndExtractRepository: nil, a failed
\* request (validation.go 70, 76) or the request's context expired
JWKSErrors ==
  {Nil, <<"JWKS request failed with status 503">>,
   <<"failed to fetch JWKS: ", "context deadline exceeded">>}

\* ValidateAndExtractRepository (validation.go 123-176) given what fetchJWKS
\* and jwt.Parse answer
ValidateAndExtractRepository(jwksErr, parseErr, claim) ==
  IF jwksErr # Nil
  THEN [repository |-> <<"">>, err |-> <<"failed to fetch JWKS: ">> \o jwksErr]
  ELSE IF parseErr # Nil
  THEN [repository |-> <<"">>, err |-> <<"token validation failed: ">> \o parseErr]
  ELSE ExtractRepository(claim)

\* ------------------------------------------------------- request inputs

Paths == {"/token", "/other"}

Methods == {"POST", "GET"}

\* Authorization header values, as the scheme prefix and what follows it
AuthHeaders ==
  {<<>>, <<"Basic ", "abc">>, <<"bearer ", "jwt">>, <<"Bearer ">>,
   <<"Bearer ", "jwt">>}

ParamNames ==
  {"contents", "administration", "secret_scanning",
   "organization_administration"}

ParamValues == {"read", "write", "READ", "write "}

\* The query string as its key=value pairs in order
RawQueries ==
  UNION {[1..n -> ParamNames \X ParamValues] : n \in 0..MaxParams}

\* r.URL.Query(): the values of each name present, in order of appearance
URLQuery(raw) ==
  [name \in {raw[i][1] : i \in 1..Len(raw)} |->
     LET sel == SelectSeq(raw, LAMBDA p : p[1] = name)
     IN  [i \in 1..Len(sel) |-> sel[i][2]]]

Queries == {URLQuery(raw) : raw \in RawQueries}

RepositoryClaims ==
  {[isString |-> FALSE, value |-> <<"">>],
   [isString |-> TRUE, value |-> <<"">>],
   [isString |-> TRUE, value |-> <<"widgets">>],
   [isString |-> TRUE, value |-> <<"acme", "widgets">>],
   [isString |-> TRUE, value |-> <<"evil", "repo">>],
   [isString |-> TRUE, value |-> <<"", "repo">>]}

\* GITHUB_ALLOWED_OWNERS as its comma-separated parts: unset, or one owner
EnvAllowedOwners == {<<"">>, <<"acme">>}

\* The scopes the authority's answers range over
AuthorityScopeIds == {"contents", "administration"}

\* *github.InstallationPermissions as the map of its set fields
PermissionSets ==
  UNION {[D -> {"read", "write"}] : D \in SUBSET AuthorityScopeIds}

\* Expiry instants of a minted token (seconds of the day)
Expiries == {3600, 86399}

IssuedTokens ==
  {[token |-> "ghs_token", expires |-> t, permissions |-> p] :
     t \in Expiries, p \in PermissionSets}

NoToken == [token |-> "", expires |-> 0, permissions |-> Nil]

NoResponse == [status |-> 0]

\* -------------------------------------------------- TokenHandler's state

VARIABLES
  unit,         \* a call of one function on its own: arguments and result
  envOwners,    \* GITHUB_ALLOWED_OWNERS of the process, as its parts
  pc,           \* the handler's position
  path,         \* r.URL.Path, once read
  method,       \* r.Method, once read
  authHeader,   \* the Authorization header, once read
  repository,   \* the verified subject
  query,        \* r.URL.Query(), once read
  scopes,       \* the parsed scope map
  granted,      \* the installation's permissions, once fetched
  issued,       \* the installation token the authority minted
  err,          \* CreateInstallationToken's error
  calls,        \* the collaborator calls made so far, in order
  resp,         \* the response written
  served,       \* the requests the process has answered before this one
  jwksCache,   \* validation.go 43: the cached key set (0 is nil)
  jwksCacheTime, \* validation.go 44: the clock when it was stored
  jwksMutex,    \* validation.go 45: the writer (0 is none) and the readers
  clock,        \* time.Now(), in half hours
  fetchPc,      \* each caller's position in fetchJWKS
  fetchResult,  \* what fetchJWKS returned to each caller
  httpFetches,  \* the HTTP fetches of this round: <<caller, succeeded>>
  lockOrder,    \* the callers in the order they took the exclusive lock
  staleAtStart  \* whether the cache was empty or expired as the round began

JWKSVars ==
  <<jwksCache, jwksCacheTime, jwksMutex, clock, fetchPc, fetchResult,
    httpFetches, lockOrder, staleAtStart>>

vars ==
  <<unit, envOwners, pc, path, method, authHeader, repository, query, scopes,
    granted, issued, err, calls, resp, served, JWKSVars>>

\* Concurrent callers of fetchJWKS
Callers == 1..MaxCallers

\* No caller is inside fetchJWKS and the cache was never filled
JWKSOff ==
  /\ jwksCache = 0
  /\ jwksCacheTime = 0
  /\ jwksMutex = [writer |-> 0, readers |-> {}]
  /\ clock = 0
  /\ fetchPc = [c \in Callers |-> "off"]
  /\ fetchResult = [c \in Callers |-> [jwks |-> 0, err |-> Nil]]
  /\ httpFetches = <<>>
  /\ lockOrder = <<>>
  /\ staleAtStart = TRUE

NoCall == [fn |-> "none", done |-> FALSE]

Init ==
  /\ unit = NoCall
  /\ served = 0
  /\ JWKSOff
  /\ envOwners \in EnvAllowedOwners
  /\ pc = "path"
  /\ path = ""
  /\ method = ""
  /\ authHeader = <<>>
  /\ repository = <<>>
  /\ query = <<>>
  /\ scopes = <<>>
  /\ granted = <<>>
  /\ issued = NoToken
  /\ err = Nil
  /\ calls = <<>>
  /\ resp = NoResponse

\* writeError / writeJSON with the return after it left out
AnswerWithoutReturn(r) ==
  /\ resp' = r
  /\ pc' = pc

\* return after writeError / writeJSON
Answer(r) ==
  /\ resp' = r
  /\ pc' = "done"

\* handlers.go 28-32
CheckPath ==
  /\ pc = "path"
  /\ \E p \in Paths :
       /\ path' = p
       /\ IF p # "/token"
          THEN Answer(WriteError(404, <<"not found">>, Nil))
          ELSE pc' = "method" /\ UNCHANGED resp
  /\ UNCHANGED <<JWKSVars, served, unit, envOwners, method, authHeader, repository, query, scopes,
                 granted, issued, err, calls>>

\* CheckMethod letting every method through
CheckMethodAnyAccepted ==
  /\ pc = "method"
  /\ \E m \in Methods : method' = m
  /\ pc' = "auth"
  /\ UNCHANGED <<JWKSVars, served, unit, envOwners, path, authHeader, repository, query, scopes,
                 granted, issued, err, calls, resp>>

\* handlers.go 34-38
CheckMethod ==
  /\ pc = "method"
  /\ \E m \in Methods :
       /\ method' = m
       /\ IF m # "POST"
          THEN Answer(WriteError(405, <<"method not allowed">>, Nil))
          ELSE pc' = "auth" /\ UNCHANGED resp
  /\ UNCHANGED <<JWKSVars, served, unit, envOwners, path, authHeader, repository, query, scopes,
                 granted, issued, err, calls>>

\* handlers.go 43-59
CheckAuthorization ==
  /\ pc = "auth"
  /\ \E h \in AuthHeaders :
       /\ authHeader' = h
       /\ IF h = <<>>
          THEN Answer(WriteError(401, <<"missing Authorization header">>, Nil))
          ELSE IF h[1] # "Bearer "
          THEN Answer(WriteError(401,
                 <<"invalid Authorization header format (expected 'Bearer <token>')">>,
                 Nil))
          ELSE IF Tail(h) = <<>>
          THEN Answer(WriteError(401,
                 <<"empty token in Authorization header">>, Nil))
          ELSE pc' = "identity" /\ UNCHANGED resp
  /\ UNCHANGED <<JWKSVars, served, unit, envOwners, path, method, repository, query, scopes, granted,
                 issued, err, calls>>

\* VerifyIdentity going on with whatever ValidateAndExtractRepository returns
VerifyIdentityErrorIgnored ==
  /\ pc = "identity"
  /\ calls' = Append(calls, "ValidateAndExtractRepository")
  /\ \E jwksErr \in JWKSErrors,
        parseErr \in {Nil, <<"token is expired">>},
        claim \in RepositoryClaims :
       LET r == ValidateAndExtractRepository(jwksErr, parseErr, claim)
       IN  /\ repository' = r.repository
           /\ pc' = "parse"
           /\ UNCHANGED resp
  /\ UNCHANGED <<JWKSVars, served, unit, envOwners, path, method, authHeader, query, scopes, granted,
                 issued, err>>

\* VerifyIdentity answering a failure to fetch the key set as an outage
VerifyIdentityJWKSUnavailable ==
  /\ pc = "identity"
  /\ calls' = Append(calls, "ValidateAndExtractRepository")
  /\ \E jwksErr \in JWKSErrors,
        parseErr \in {Nil, <<"token is expired">>},
        claim \in RepositoryClaims :
       LET r == ValidateAndExtractRepository(jwksErr, parseErr, claim)
       IN  IF r.err # Nil
           THEN /\ Answer(WriteError(IF jwksErr # Nil THEN 503 ELSE 401,
                                     <<"invalid OIDC token: ">> \o r.err, Nil))
                /\ UNCHANGED repository
           ELSE /\ repository' = r.repository
                /\ pc' = "parse"
                /\ UNCHANGED resp
  /\ UNCHANGED <<JWKSVars, served, unit, envOwners, path, method, authHeader, query, scopes, granted,
                 issued, err>>

\* handlers.go 61-66
VerifyIdentity ==
  /\ pc = "identity"
  /\ calls' = Append(calls, "ValidateAndExtractRepository")
  /\ \E jwksErr \in JWKSErrors,
        parseErr \in {Nil, <<"token is expired">>},
        claim \in RepositoryClaims :
       LET r == ValidateAndExtractRepository(jwksErr, parseErr, claim)
       IN  IF r.err # Nil
           THEN /\ Answer(WriteError(401, <<"invalid OIDC token: ">> \o r.err, Nil))
                /\ UNCHANGED repository
           ELSE /\ repository' = r.repository
                /\ pc' = "parse"
                /\ UNCHANGED resp
  /\ UNCHANGED <<JWKSVars, served, unit, envOwners, path, method, authHeader, query, scopes, granted,
                 issued, err>>

\* handlers.go 68-93
ParseRequestScopes ==
  /\ pc = "parse"
  /\ \E q \in Queries :
       /\ query' = q
       /\ \E r \in ParseScopes(q) :
            IF r.err # Nil
            THEN Answer(WriteError(400, r.err, Nil)) /\ UNCHANGED scopes
            ELSE scopes' = r.scopes /\ pc' = "validate" /\ UNCHANGED resp
  /\ UNCHANGED <<JWKSVars, served, unit, envOwners, path, method, authHeader, repository, granted,
                 issued, err, calls>>

\* ValidateRequestScopes going on whatever ValidateScopes returns
ValidateRequestScopesErrorIgnored ==
  /\ pc = "validate"
  /\ pc' = "config"
  /\ UNCHANGED <<JWKSVars, served, unit, envOwners, path, method, authHeader, repository, query,
                 scopes, granted, issued, err, calls, resp>>

\* handlers.go 95-99
ValidateRequestScopes ==
  /\ pc = "validate"
  /\ \E e \in ValidateScopes(scopes) :
       IF e # Nil
       THEN Answer(WriteError(400, e, Nil))
       ELSE pc' = "config" /\ UNCHANGED resp
  /\ UNCHANGED <<JWKSVars, served, unit, envOwners, path, method, authHeader, repository, query,
                 scopes, granted, issued, err, calls>>

\* handlers.go 101-113: GOOGLE_CLOUD_PROJECT, else GCP_PROJECT
ReadProjectID ==
  /\ pc = "config"
  /\ \E googleCloudProject \in {"", "project"}, gcpProject \in {"", "project"} :
       LET projectID ==
             IF googleCloudProject = "" THEN gcpProject ELSE googleCloudProject
       IN  IF projectID = ""
           THEN Answer(WriteError(500, <<"GCP project ID not configured">>, Nil))
           ELSE pc' = "key" /\ UNCHANGED resp
  /\ UNCHANGED <<JWKSVars, served, unit, envOwners, path, method, authHeader, repository, query,
                 scopes, granted, issued, err, calls>>

\* FetchPrivateKey asking Secret Manager again after a failure
FetchPrivateKeyRetried ==
  /\ pc = "key"
  /\ calls' = Append(calls, "GetPrivateKey")
  /\ \E e \in {Nil, ErrPrivateKey} :
       IF e # Nil
       THEN IF Len(calls) < 2
            THEN pc' = "key" /\ UNCHANGED resp
            ELSE Answer(WriteError(500, e, Nil))
       ELSE pc' = "jwt" /\ UNCHANGED resp
  /\ UNCHANGED <<JWKSVars, served, unit, envOwners, path, method, authHeader, repository, query,
                 scopes, granted, issued, err>>

\* handlers.go 115-120
FetchPrivateKey ==
  /\ pc = "key"
  /\ calls' = Append(calls, "GetPrivateKey")
  /\ \E e \in {Nil, ErrPrivateKey} :
       IF e # Nil
       THEN Answer(WriteError(500, e, Nil))
       ELSE pc' = "jwt" /\ UNCHANGED resp
  /\ UNCHANGED <<JWKSVars, served, unit, envOwners, path, method, authHeader, repository, query,
                 scopes, granted, issued, err>>

\* SignJWT answering a signing failure as an outage of the authority
SignJWTFailureUnavailable ==
  /\ pc = "jwt"
  /\ \E e \in {Nil, ErrSignJWT} :
       IF e # Nil
       THEN Answer(WriteError(503, <<"GitHub API error: ">> \o e, Nil))
       ELSE pc' = "installation" /\ UNCHANGED resp
  /\ UNCHANGED <<JWKSVars, served, unit, envOwners, path, method, authHeader, repository, query,
                 scopes, granted, issued, err, calls>>

\* handlers.go 122-130
SignJWT ==
  /\ pc = "jwt"
  /\ \E e \in {Nil, ErrSignJWT} :
       IF e # Nil
       THEN Answer(WriteError(500, <<"failed to create JWT: ">> \o e, Nil))
       ELSE pc' = "installation" /\ UNCHANGED resp
  /\ UNCHANGED <<JWKSVars, served, unit, envOwners, path, method, authHeader, repository, query,
                 scopes, granted, issued, err, calls>>

\* ResolveInstallation going on without asking for the installation
ResolveInstallationSkipped ==
  /\ pc = "installation"
  /\ pc' = "permissions"
  /\ UNCHANGED <<JWKSVars, served, unit, envOwners, path, method, authHeader, repository, query,
                 scopes, granted, issued, err, calls, resp>>

\* handlers.go 132-141
ResolveInstallation ==
  /\ pc = "installation"
  /\ calls' = Append(calls, "GetInstallationID")
  /\ \E e \in {Nil, ErrNotInstalled(repository), ErrAPI, ErrDeadline} :
       IF e # Nil
       THEN Answer(InstallationErrorResponse(e))
       ELSE pc' = "permissions" /\ UNCHANGED resp
  /\ UNCHANGED <<JWKSVars, served, unit, envOwners, path, method, authHeader, repository, query,
                 scopes, granted, issued, err>>

\* CreateInstallationToken (handlers.go 144; its body is in github.go), in
\* the steps of the Credential Exchange Protocol.  Step 2: fetch the
\* installation's granted permissions.
FetchGrantedPermissions ==
  /\ pc = "permissions"
  /\ calls' = Append(calls, "GetInstallationPermissions")
  /\ \/ \E e \in {ErrNotInstalled(repository), ErrAPI, ErrDeadline} :
          err' = e /\ pc' = "respond" /\ UNCHANGED granted
     \/ \E g \in PermissionSets :
          granted' = g /\ pc' = "subset" /\ UNCHANGED err
  /\ UNCHANGED <<JWKSVars, served, unit, envOwners, path, method, authHeader, repository, query,
                 scopes, issued, resp>>

\* Step 3: VerifyRequestedScopes(scopes, granted)
VerifySubset ==
  /\ pc = "subset"
  /\ LET e == VerifyRequestedScopes(scopes, granted)
     IN  IF e # Nil
         THEN err' = e /\ pc' = "respond"
         ELSE pc' = "mint" /\ UNCHANGED err
  /\ UNCHANGED <<JWKSVars, served, unit, envOwners, path, method, authHeader, repository, query,
                 scopes, granted, issued, calls, resp>>

\* Step 4: the authority mints the token for the requested scopes
RequestCredential ==
  /\ pc = "mint"
  /\ calls' = Append(calls, "CreateInstallationToken")
  /\ \/ \E e \in {ErrSuspended, ErrAPI, ErrDeadline} :
          err' = e /\ pc' = "respond" /\ UNCHANGED issued
     \/ \E t \in IssuedTokens :
          issued' = t /\ pc' = "exact" /\ UNCHANGED err
  /\ UNCHANGED <<JWKSVars, served, unit, envOwners, path, method, authHeader, repository, query,
                 scopes, granted, resp>>

\* Step 5: the minted token must carry exactly the requested permissions
VerifyExactGrant ==
  /\ pc = "exact"
  /\ err' = VerifyIssuedToken(scopes, issued.permissions)
  /\ pc' = "respond"
  /\ UNCHANGED <<JWKSVars, served, unit, envOwners, path, method, authHeader, repository, query,
                 scopes, granted, issued, calls, resp>>

\* What CreateInstallationToken returns beside err: the token, nil on error
ReturnedToken == IF err = Nil THEN issued ELSE NoToken

\* RespondExchange echoing the installation's permissions for the scopes
RespondExchangeGrantedEchoed ==
  /\ pc = "respond"
  /\ Answer(ExchangeResponse(ReturnedToken, err, granted))
  /\ UNCHANGED <<JWKSVars, served, unit, envOwners, path, method, authHeader, repository, query,
                 scopes, granted, issued, err, calls>>

\* handlers.go 145-163
RespondExchange ==
  /\ pc = "respond"
  /\ Answer(ExchangeResponse(ReturnedToken, err, scopes))
  /\ UNCHANGED <<JWKSVars, served, unit, envOwners, path, method, authHeader, repository, query,
                 scopes, granted, issued, err, calls>>

Next ==
  \/ CheckPath
  \/ CheckMethod
  \/ CheckAuthorization
  \/ VerifyIdentity
  \/ ParseRequestScopes
  \/ ValidateRequestScopes
  \/ ReadProjectID
  \/ FetchPrivateKey
  \/ SignJWT
  \/ ResolveInstallation
  \/ FetchGrantedPermissions
  \/ VerifySubset
  \/ RequestCredential
  \/ VerifyExactGrant
  \/ RespondExchange

Spec == Init /\ [][Next]_vars

\* Every step of the handler ends: the local steps are straight-line code and
\* each collaborator call runs under the request's context, which expires
\* after 30 seconds (handlers.go 40-41), so a step that can be taken is taken.
FairSpec == Spec /\ WF_vars(Next)

\* ------------------------------------------- one request after another
\* The process serves request after request (main.go registers TokenHandler);
\* each call of TokenHandler starts with fresh local variables, and what
\* stays from one request to the next is the process's environment and its
\* package variables.

\* NewRequest with the previous request's permissions and token kept
NewRequestExchangeCached ==
  /\ pc = "done"
  /\ served < MaxRequests
  /\ served' = served + 1
  /\ pc' = "path"
  /\ path' = ""
  /\ method' = ""
  /\ authHeader' = <<>>
  /\ repository' = <<>>
  /\ query' = <<>>
  /\ scopes' = <<>>
  /\ err' = Nil
  /\ calls' = <<>>
  /\ resp' = NoResponse
  /\ UNCHANGED <<JWKSVars, unit, envOwners, granted, issued>>

\* TokenHandler is called for the next request
NewRequest ==
  /\ pc = "done"
  /\ served < MaxRequests
  /\ served' = served + 1
  /\ pc' = "path"
  /\ path' = ""
  /\ method' = ""
  /\ authHeader' = <<>>
  /\ repository' = <<>>
  /\ query' = <<>>
  /\ scopes' = <<>>
  /\ granted' = <<>>
  /\ issued' = NoToken
  /\ err' = Nil
  /\ calls' = <<>>
  /\ resp' = NoResponse
  /\ UNCHANGED <<JWKSVars, unit, envOwners>>

ServeNext == Next \/ NewRequest

ServeSpec == Init /\ [][ServeNext]_vars

\* ------------------------------------------- the functions on their own
\* Each function below is called once on arguments drawn by UnitInit; the
\* handler stands still ("off").

\* Scope maps handed to ValidateScopes and VerifyRequestedScopes
UnitLevels == {"read", "write", "admin"}

UnitScopeMaps == UNION {[D -> UnitLevels] : D \in SUBSET ParamNames}

\* Values of the package variable AllowedScopes: the one of scopes.go, and
\* small permit mappings
PermitMappings ==
  {AllowedScopes}
    \cup UNION {[D -> {ReadWrite, ReadOnly}] :
                  D \in SUBSET {"contents", "organization_administration"}}

\* Values of the package variable BlacklistedScopes: the empty one of
\* scopes.go, and small deny-sets
DenySets == SUBSET {"contents", "organization_administration"}

UnitRepositories ==
  {<<"">>, <<"widgets">>, <<"acme", "widgets">>, <<"Acme", "widgets">>,
   <<"", "widgets">>, <<"evil", "repo">>, <<"acme", "widgets", "extra">>}

UnitOwners == {"acme", "Acme", "other"}

\* allowedOwners: nil and the empty slice are both of length 0
UnitAllowedOwners == UNION {[1..n -> UnitOwners] : n \in 0..MaxAllowedOwners}

\* The parts strings.Split(envValue, ",") yields for the values of
\* GITHUB_ALLOWED_OWNERS drawn: an unset or empty value is one empty part
UnitEnvParts == {"", " ", "acme", " acme ", "acme ", "other"}

UnitEnvValues == UNION {[1..n -> UnitEnvParts] : n \in 1..MaxEnvParts}

\* Arguments of writeJSON: the statuses the handler uses, and as data a
\* token response, an error response and a channel
UnitStatusCodes == {200, 400, 401, 403, 404, 405, 500, 503}

UnitPayloads ==
  {TokenResponse(t, [contents |-> "read"]) : t \in IssuedTokens \ {NoToken}}
    \cup {[error |-> ErrNoScopes, details |-> Nil], Channel}

UnitCalls ==
  {[fn |-> "ValidateScopes", done |-> FALSE, scopes |-> s, allowed |-> a,
    blacklisted |-> b, result |-> Nil] :
     s \in UnitScopeMaps, a \in PermitMappings, b \in DenySets}
  \cup
  {[fn |-> "VerifyRequestedScopes", done |-> FALSE, requested |-> s,
    granted |-> g, result |-> Nil] :
     s \in UnitScopeMaps, g \in PermissionSets}
  \cup
  {[fn |-> "ValidateOwnerAllowed", done |-> FALSE, repository |-> r,
    allowedOwners |-> a, result |-> Nil] :
     r \in UnitRepositories, a \in UnitAllowedOwners}
  \cup
  {[fn |-> "ParseScopes", done |-> FALSE, query |-> q, parses |-> <<>>,
    result |-> Nil] : q \in Queries}
  \cup
  {[fn |-> "writeJSON", done |-> FALSE, statusCode |-> c, data |-> d,
    result |-> Nil] : c \in UnitStatusCodes, d \in UnitPayloads}
  \cup
  {[fn |-> "ParseAllowedOwners", done |-> FALSE, envParts |-> e,
    repository |-> r, result |-> <<>>, verdict |-> Nil] :
     e \in UnitEnvValues, r \in UnitRepositories}

UnitInit ==
  /\ unit \in UnitCalls
  /\ served = 0
  /\ JWKSOff
  /\ envOwners = <<"">>
  /\ pc = "off"
  /\ path = ""
  /\ method = ""
  /\ authHeader = <<>>
  /\ repository = <<>>
  /\ query = <<>>
  /\ scopes = <<>>
  /\ granted = <<>>
  /\ issued = NoToken
  /\ err = Nil
  /\ calls = <<>>
  /\ resp = NoResponse

HandlerVars ==
  <<envOwners, pc, path, method, authHeader, repository, query, scopes,
    granted, issued, err, calls, served>>

\* ValidateScopes(scopes) under the package's tables, and the handler's answer
\* to its error (handlers.go 96-99)
CallValidateScopes ==
  /\ unit.fn = "ValidateScopes" /\ ~unit.done
  /\ \E e \in ValidateScopesWith(unit.scopes, unit.allowed, unit.blacklisted) :
       /\ unit' = [unit EXCEPT !.done = TRUE, !.result = e]
       /\ resp' = IF e # Nil THEN WriteError(400, e, Nil) ELSE resp
  /\ UNCHANGED <<JWKSVars, HandlerVars>>

CallVerifyRequestedScopes ==
  /\ unit.fn = "VerifyRequestedScopes" /\ ~unit.done
  /\ unit' = [unit EXCEPT !.done = TRUE,
                !.result = VerifyRequestedScopes(unit.requested, unit.granted)]
  /\ UNCHANGED <<JWKSVars, HandlerVars, resp>>

CallValidateOwnerAllowed ==
  /\ unit.fn = "ValidateOwnerAllowed" /\ ~unit.done
  /\ unit' = [unit EXCEPT !.done = TRUE,
                !.result = ValidateOwnerAllowed(unit.repository,
                                                unit.allowedOwners)]
  /\ UNCHANGED <<JWKSVars, HandlerVars, resp>>

\* The parsing loop of TokenHandler (handlers.go 68-93) run on the same
\* r.URL.Query() once more, until it has run twice; each run starts from a
\* new map (handlers.go 69) and ranges over the query in an order of its own
CallParseScopes ==
  /\ unit.fn = "ParseScopes" /\ ~unit.done
  /\ \E r \in ParseScopes(unit.query) :
       unit' = [unit EXCEPT !.parses = Append(@, r),
                            !.done = (Len(unit.parses) = 1),
                            !.result = r.err]
  /\ UNCHANGED <<JWKSVars, HandlerVars, resp>>

\* ParseAllowedOwners() on the environment's value, and ValidateOwnerAllowed
\* called with the list it returned
CallParseAllowedOwners ==
  /\ unit.fn = "ParseAllowedOwners" /\ ~unit.done
  /\ LET owners == ParseAllowedOwners(unit.envParts)
     IN  unit' = [unit EXCEPT !.done = TRUE,
                              !.result = owners,
                              !.verdict = ValidateOwnerAllowed(unit.repository,
                                                               owners)]
  /\ UNCHANGED <<JWKSVars, HandlerVars, resp>>

\* writeJSON(w, statusCode, data) on a new ResponseRecorder
CallWriteJSON ==
  /\ unit.fn = "writeJSON" /\ ~unit.done
  /\ resp = NoResponse
  /\ resp' = WriteJSON(unit.statusCode, unit.data)
  /\ unit' = [unit EXCEPT !.done = TRUE]
  /\ UNCHANGED <<JWKSVars, HandlerVars>>

UnitNext ==
  \/ CallWriteJSON
  \/ CallValidateScopes
  \/ CallVerifyRequestedScopes
  \/ CallValidateOwnerAllowed
  \/ CallParseScopes
  \/ CallParseAllowedOwners

UnitSpec == UnitInit /\ [][UnitNext]_vars

\* ------------------------------------------------- fetchJWKS, concurrently
\* Requests served at the same time call fetchJWKS (validation.go 49-88) on
\* the package's cache.  The callers of one round enter while no time passes:
\* a call is bounded by its request's 30 second context, far below the cache
\* duration; the clock moves between rounds.

\* jwksCacheDuration = 1 * time.Hour, in half hours
JwksCacheDuration == 2

\* jwksCache != nil && time.Since(jwksCacheTime) < jwksCacheDuration
CacheFresh == jwksCache # 0 /\ clock - jwksCacheTime < JwksCacheDuration

RequestVars ==
  <<unit, envOwners, pc, path, method, authHeader, repository, query, scopes,
    granted, issued, err, calls, resp, served>>

JWKSInit ==
  /\ unit = NoCall
  /\ served = 0
  /\ envOwners = <<"">>
  /\ pc = "off"
  /\ path = ""
  /\ method = ""
  /\ authHeader = <<>>
  /\ repository = <<>>
  /\ query = <<>>
  /\ scopes = <<>>
  /\ granted = <<>>
  /\ issued = NoToken
  /\ err = Nil
  /\ calls = <<>>
  /\ resp = NoResponse
  /\ jwksCache = 0
  /\ jwksCacheTime = 0
  /\ jwksMutex = [writer |-> 0, readers |-> {}]
  /\ clock = 0
  /\ fetchPc = [c \in Callers |-> "idle"]
  /\ fetchResult = [c \in Callers |-> [jwks |-> 0, err |-> Nil]]
  /\ httpFetches = <<>>
  /\ lockOrder = <<>>
  /\ staleAtStart = TRUE

\* a request reaches fetchJWKS(ctx)
FetchCall(c) ==
  /\ fetchPc[c] = "idle"
  /\ fetchPc' = [fetchPc EXCEPT ![c] = "rlock"]
  /\ UNCHANGED <<RequestVars, jwksCache, jwksCacheTime, jwksMutex, clock,
                 fetchResult, httpFetches, lockOrder, staleAtStart>>

\* RLock on a mutex that admits one holder at a time
RLockExclusive(c) ==
  /\ fetchPc[c] = "rlock"
  /\ jwksMutex.writer = 0
  /\ jwksMutex.readers = {}
  /\ jwksMutex' = [jwksMutex EXCEPT !.readers = @ \cup {c}]
  /\ fetchPc' = [fetchPc EXCEPT ![c] = "rcheck"]
  /\ UNCHANGED <<RequestVars, jwksCache, jwksCacheTime, clock, fetchResult,
                 httpFetches, lockOrder, staleAtStart>>

\* validation.go 50: jwksMutex.RLock()
RLock(c) ==
  /\ fetchPc[c] = "rlock"
  /\ jwksMutex.writer = 0
  /\ jwksMutex' = [jwksMutex EXCEPT !.readers = @ \cup {c}]
  /\ fetchPc' = [fetchPc EXCEPT ![c] = "rcheck"]
  /\ UNCHANGED <<RequestVars, jwksCache, jwksCacheTime, clock, fetchResult,
                 httpFetches, lockOrder, staleAtStart>>

\* ReadCheck going on to Lock() without the RUnlock of line 56
ReadCheckLockKept(c) ==
  /\ fetchPc[c] = "rcheck"
  /\ IF CacheFresh
     THEN /\ fetchResult' =
               [fetchResult EXCEPT ![c] = [jwks |-> jwksCache, err |-> Nil]]
          /\ jwksMutex' = [jwksMutex EXCEPT !.readers = @ \ {c}]
          /\ fetchPc' = [fetchPc EXCEPT ![c] = "returned"]
     ELSE /\ fetchPc' = [fetchPc EXCEPT ![c] = "lock"]
          /\ UNCHANGED <<fetchResult, jwksMutex>>
  /\ UNCHANGED <<RequestVars, jwksCache, jwksCacheTime, clock, httpFetches,
                 lockOrder, staleAtStart>>

\* validation.go 51-55: return the fresh cache, or release the read lock
ReadCheck(c) ==
  /\ fetchPc[c] = "rcheck"
  /\ jwksMutex' = [jwksMutex EXCEPT !.readers = @ \ {c}]
  /\ IF CacheFresh
     THEN /\ fetchResult' =
               [fetchResult EXCEPT ![c] = [jwks |-> jwksCache, err |-> Nil]]
          /\ fetchPc' = [fetchPc EXCEPT ![c] = "returned"]
     ELSE /\ fetchPc' = [fetchPc EXCEPT ![c] = "lock"]
          /\ UNCHANGED fetchResult
  /\ UNCHANGED <<RequestVars, jwksCache, jwksCacheTime, clock, httpFetches,
                 lockOrder, staleAtStart>>

\* validation.go 57: jwksMutex.Lock()
Lock(c) ==
  /\ fetchPc[c] = "lock"
  /\ jwksMutex.writer = 0
  /\ jwksMutex.readers = {}
  /\ jwksMutex' = [jwksMutex EXCEPT !.writer = c]
  /\ lockOrder' = Append(lockOrder, c)
  /\ fetchPc' = [fetchPc EXCEPT ![c] = "wcheck"]
  /\ UNCHANGED <<RequestVars, jwksCache, jwksCacheTime, clock, fetchResult,
                 httpFetches, staleAtStart>>

\* DoubleCheck going on to the HTTP request whatever the cache holds
DoubleCheckSkipped(c) ==
  /\ fetchPc[c] = "wcheck"
  /\ fetchPc' = [fetchPc EXCEPT ![c] = "request"]
  /\ UNCHANGED <<RequestVars, jwksCache, jwksCacheTime, jwksMutex, clock,
                 fetchResult, httpFetches, lockOrder, staleAtStart>>

\* validation.go 60-63: the check again, under the exclusive lock
DoubleCheck(c) ==
  /\ fetchPc[c] = "wcheck"
  /\ IF CacheFresh
     THEN /\ fetchResult' =
               [fetchResult EXCEPT ![c] = [jwks |-> jwksCache, err |-> Nil]]
          /\ jwksMutex' = [jwksMutex EXCEPT !.writer = 0]
          /\ fetchPc' = [fetchPc EXCEPT ![c] = "returned"]
     ELSE /\ fetchPc' = [fetchPc EXCEPT ![c] = "request"]
          /\ UNCHANGED <<fetchResult, jwksMutex>>
  /\ UNCHANGED <<RequestVars, jwksCache, jwksCacheTime, clock, httpFetches,
                 lockOrder, staleAtStart>>

\* HTTPFetch returning the expired key set when the request fails
HTTPFetchStaleFallback(c) ==
  /\ fetchPc[c] = "request"
  /\ \E ok \in BOOLEAN :
       /\ httpFetches' = Append(httpFetches, <<c, ok>>)
       /\ IF ok
          THEN /\ fetchPc' = [fetchPc EXCEPT ![c] = "store"]
               /\ UNCHANGED <<fetchResult, jwksMutex>>
          ELSE /\ fetchResult' =
                    [fetchResult EXCEPT
                       ![c] = IF jwksCache # 0
                              THEN [jwks |-> jwksCache, err |-> Nil]
                              ELSE [jwks |-> 0,
                                    err |-> <<"failed to fetch JWKS: ">>]]
               /\ jwksMutex' = [jwksMutex EXCEPT !.writer = 0]
               /\ fetchPc' = [fetchPc EXCEPT ![c] = "returned"]
  /\ UNCHANGED <<RequestVars, jwksCache, jwksCacheTime, clock, lockOrder,
                 staleAtStart>>

\* validation.go 65-83: the HTTP request and the decoding of its body; on an
\* error the deferred Unlock runs and the error is returned
HTTPFetch(c) ==
  /\ fetchPc[c] = "request"
  /\ \E ok \in BOOLEAN :
       /\ httpFetches' = Append(httpFetches, <<c, ok>>)
       /\ IF ok
          THEN /\ fetchPc' = [fetchPc EXCEPT ![c] = "store"]
               /\ UNCHANGED <<fetchResult, jwksMutex>>
          ELSE /\ fetchResult' =
                    [fetchResult EXCEPT
                       ![c] = [jwks |-> 0, err |-> <<"failed to fetch JWKS: ">>]]
               /\ jwksMutex' = [jwksMutex EXCEPT !.writer = 0]
               /\ fetchPc' = [fetchPc EXCEPT ![c] = "returned"]
  /\ UNCHANGED <<RequestVars, jwksCache, jwksCacheTime, clock, lockOrder,
                 staleAtStart>>

\* validation.go 85-87: store the key set and its time, unlock, return it
Store(c) ==
  /\ fetchPc[c] = "store"
  /\ jwksCache' = jwksCache + 1
  /\ jwksCacheTime' = clock
  /\ fetchResult' =
       [fetchResult EXCEPT ![c] = [jwks |-> jwksCache + 1, err |-> Nil]]
  /\ jwksMutex' = [jwksMutex EXCEPT !.writer = 0]
  /\ fetchPc' = [fetchPc EXCEPT ![c] = "returned"]
  /\ UNCHANGED <<RequestVars, clock, httpFetches, lockOrder, staleAtStart>>

\* Every call has returned; time passes and the next requests arrive
NewRound ==
  /\ \A c \in Callers : fetchPc[c] = "returned"
  /\ \E d \in 0..JwksCacheDuration :
       /\ clock + d <= MaxClock
       /\ clock' = clock + d
       /\ staleAtStart' =
            ~(jwksCache # 0 /\ clock + d - jwksCacheTime < JwksCacheDuration)
  /\ fetchPc' = [c \in Callers |-> "idle"]
  /\ fetchResult' = [c \in Callers |-> [jwks |-> 0, err |-> Nil]]
  /\ httpFetches' = <<>>
  /\ lockOrder' = <<>>
  /\ UNCHANGED <<RequestVars, jwksCache, jwksCacheTime, jwksMutex>>

JWKSNext ==
  \/ \E c \in Callers :
       \/ FetchCall(c)
       \/ RLock(c)
       \/ ReadCheck(c)
       \/ Lock(c)
       \/ DoubleCheck(c)
       \/ HTTPFetch(c)
       \/ Store(c)
  \/ NewRound

JWKSSpec == JWKSInit /\ [][JWKSNext]_vars

\* The scheduler runs a goroutine that can run, a released mutex is handed to
\* a waiter, and the HTTP request ends by its answer or by the request's
\* context
JWKSFairSpec == JWKSSpec /\ WF_vars(JWKSNext)

\* ------------------------------------------------------------ properties

\* Scope parsing has run on the request's query
Parsed == repository # <<>> /\ pc # "parse"

\* The calls of the Credential Exchange Protocol made so far
ExchangeCalls ==
  {calls[i] : i \in 1..Len(calls)}
    \cap {"GetPrivateKey", "GetInstallationID", "GetInstallationPermissions",
          "CreateInstallationToken"}

Levels == {"read", "write"}

\* The parameters present more than once, and those whose one value is no level
DuplicatedParams == {p \in DOMAIN query : Len(query[p]) >= 2}

BadLevelParams ==
  {p \in DOMAIN query : Len(query[p]) = 1 /\ query[p][1] \notin Levels}

\* (id, level) is refused by the policy table of scopes.go
PolicyRefuses(id, level) ==
  \/ id \in BlacklistedScopes
  \/ id \notin DOMAIN AllowedScopes
  \/ \A i \in 1..Len(AllowedScopes[id]) : AllowedScopes[id][i] # level

\* The authority minted a token whose permissions are not the requested ones
GrantMismatch == issued # NoToken /\ issued.permissions # scopes

\* C1: whenever the permissions of the token the authority minted differ from
\* the requested scopes, the request ends with 403 "fewer scopes" and a body
\* that carries no token; a 200 response carries the minted token and is
\* written only when the minted permissions equal the requested scopes.
C1_ExactGrant ==
  /\ (pc = "done" /\ GrantMismatch) =>
       /\ resp.status = 403
       /\ resp.body.error = ErrFewerScopes
       /\ "token" \notin DOMAIN resp.body
  /\ resp.status = 200 =>
       /\ issued # NoToken
       /\ issued.permissions = scopes
       /\ resp.body.token = issued.token

\* C1 witness: the authority minted a superset of the requested scopes and
\* the request ended with 403
C1_Witness ==
  /\ pc = "done"
  /\ GrantMismatch
  /\ \A id \in DOMAIN scopes :
       id \in DOMAIN issued.permissions /\ issued.permissions[id] = scopes[id]
  /\ resp.status = 403

C3_DetailsLists ==
  (pc = "done" /\ ErrContains(err, "insufficient permissions")) =>
    /\ resp.status = 403
    /\ DOMAIN resp.body.details =
         {"requested_scopes", "granted_scopes", "missing_scopes"}
    /\ resp.body.details.requested_scopes = DOMAIN scopes
    /\ resp.body.details.granted_scopes = DOMAIN granted
    /\ resp.body.details.missing_scopes = MissingScopes(scopes, granted)

\* C4 (as claimed): a query with a parameter present more than once is
\* answered 400 "duplicate scope" naming a duplicated parameter.
C4_DuplicateAlwaysReported ==
  (Parsed /\ DuplicatedParams # {}) =>
    /\ resp.status = 400
    /\ \E p \in DuplicatedParams : resp.body.error = ErrDuplicateScope(p)

\* C4 (amended): a query with a parameter present more than once, with equal
\* values or not, is answered 400; the error names a duplicated parameter
\* ("duplicate scope") or a parameter whose single value is no level
\* ("invalid permission"), and it is "duplicate scope" whenever no parameter
\* has a single value that is no level.
C4_DuplicateRejected ==
  (Parsed /\ DuplicatedParams # {}) =>
    /\ resp.status = 400
    /\ \/ \E p \in DuplicatedParams : resp.body.error = ErrDuplicateScope(p)
       \/ \E p \in BadLevelParams :
            resp.body.error = ErrInvalidPermission(query[p][1], p)
    /\ BadLevelParams = {} =>
         \E p \in DuplicatedParams : resp.body.error = ErrDuplicateScope(p)

\* C4 witness: contents=read&contents=read alone was answered 400 "duplicate
\* scope 'contents'"
C4_Witness ==
  /\ Parsed
  /\ query = [p \in {"contents"} |-> <<"read", "read">>]
  /\ resp = WriteError(400, ErrDuplicateScope("contents"), Nil)

\* C5 (as claimed): a query with a parameter whose single value is not exactly
\* read or write is answered 400 "invalid permission" for such a parameter.
C5_BadLevelAlwaysReported ==
  (Parsed /\ BadLevelParams # {}) =>
    /\ resp.status = 400
    /\ \E p \in BadLevelParams :
         resp.body.error = ErrInvalidPermission(query[p][1], p)

\* C5 (amended): a query with a parameter whose single value is not exactly
\* read or write is answered 400; the error is "invalid permission" for such
\* a parameter or "duplicate scope" for a parameter present more than once,
\* and it is "invalid permission" whenever no parameter is duplicated.  The
\* parsed scope map never holds a value other than read and write.
C5_BadLevelRejected ==
  /\ (Parsed /\ BadLevelParams # {}) =>
       /\ resp.status = 400
       /\ \/ \E p \in BadLevelParams :
               resp.body.error = ErrInvalidPermission(query[p][1], p)
          \/ \E p \in DuplicatedParams : resp.body.error = ErrDuplicateScope(p)
       /\ DuplicatedParams = {} =>
            \E p \in BadLevelParams :
              resp.body.error = ErrInvalidPermission(query[p][1], p)
  /\ \A id \in DOMAIN scopes : scopes[id] \in Levels

\* C5 witness: contents=READ alone was answered 400 "invalid permission"
C5_Witness ==
  /\ Parsed
  /\ query = [p \in {"contents"} |-> <<"READ">>]
  /\ resp = WriteError(400, ErrInvalidPermission("READ", "contents"), Nil)
  /\ scopes = <<>>

\* C6: a request whose query holds no parameter (absent or empty) is answered
\* 400 "at least one scope is required".
C6_NoScopes ==
  (Parsed /\ DOMAIN query = {}) => resp = WriteError(400, ErrNoScopes, Nil)

\* C6 witness: the empty query of a verified caller was parsed and refused
C6_Witness ==
  /\ Parsed
  /\ query = URLQuery(<<>>)
  /\ resp.status = 400
  /\ calls = <<"ValidateAndExtractRepository">>

\* C7: ValidateScopes returns nil only when every requested (id, level) is
\* outside the deny-set, has an entry in the permit mapping and asks a level
\* that entry permits; an error it returns is, for some requested id, "not
\* allowed" when the id is in the deny-set (whatever the permit mapping holds),
\* else "not in allowlist" when the id has no entry, else "permission not
\* allowed" when the level is not permitted; the handler answers it with 400.
C7_PolicyOrder ==
  (unit.fn = "ValidateScopes" /\ unit.done) =>
    LET s == unit.scopes
        a == unit.allowed
        b == unit.blacklisted
        e == unit.result
        Permitted(id) == \E i \in 1..Len(a[id]) : a[id][i] = s[id]
    IN  /\ e = Nil =>
             \A id \in DOMAIN s :
               id \notin b /\ id \in DOMAIN a /\ Permitted(id)
        /\ e # Nil =>
             /\ resp = WriteError(400, e, Nil)
             /\ \E id \in DOMAIN s :
                  \/ id \in b /\ e = ErrScopeNotAllowed(id)
                  \/ /\ id \notin b
                     /\ id \notin DOMAIN a
                     /\ e = ErrScopeNotInAllowlist(id)
                  \/ /\ id \notin b
                     /\ id \in DOMAIN a
                     /\ ~Permitted(id)
                     /\ e = ErrPermissionNotAllowed(s[id], id, a[id])

\* C7 witness: contents=read with contents both permitted at read and denied
\* was refused as "not allowed" and answered 400
C7_Witness ==
  /\ unit.fn = "ValidateScopes" /\ unit.done
  /\ unit.scopes = [id \in {"contents"} |-> "read"]
  /\ unit.allowed = [id \in {"contents"} |-> ReadWrite]
  /\ unit.blacklisted = {"contents"}
  /\ unit.result = ErrScopeNotAllowed("contents")
  /\ resp.status = 400

\* The query fails scope parsing or the policy table
LocalValidationFails ==
  \/ DuplicatedParams # {}
  \/ BadLevelParams # {}
  \/ DOMAIN query = {}
  \/ \E p \in DOMAIN query : PolicyRefuses(p, query[p][1])

\* C8: a request whose query fails scope parsing or policy validation never
\* gets past validation: no call of the exchange (signing-key fetch,
\* installation lookup, permission fetch, credential issue) is made for it and
\* it ends with 400; a call of the exchange is made only after the query was
\* parsed into the scope map and passed both.
C8_ValidationBeforeExchange ==
  /\ (Parsed /\ LocalValidationFails) =>
       /\ pc \in {"validate", "done"}
       /\ ExchangeCalls = {}
       /\ pc = "done" => resp.status = 400
  /\ ExchangeCalls # {} =>
       /\ Parsed
       /\ ~LocalValidationFails
       /\ scopes = [p \in DOMAIN query |-> query[p][1]]

\* C8 witness: administration=write was answered 400 "permission 'write' not
\* allowed for scope 'administration'" after the identity check alone
C8_Witness ==
  /\ pc = "done"
  /\ query = [p \in {"administration"} |-> <<"write">>]
  /\ resp = WriteError(400,
              ErrPermissionNotAllowed("write", "administration", ReadOnly), Nil)
  /\ calls = <<"ValidateAndExtractRepository">>

\* The configured allow-list is not empty and does not hold the verified
\* subject's owner
OwnerRefused ==
  LET allowed == ParseAllowedOwners(envOwners)
  IN  /\ Len(repository) >= 2
      /\ Len(allowed) > 0
      /\ \A i \in 1..Len(allowed) : allowed[i] # repository[1]

\* C9 (as claimed): for a verified subject whose owner is not in the non-empty
\* configured allow-list no call of the exchange is made, no token is
\* answered, and a 403 answered is "repository owner ... is not allowed".
C9_OwnerFilter ==
  OwnerRefused =>
    /\ ExchangeCalls = {}
    /\ pc = "done" =>
         /\ resp.status # 200
         /\ resp.status = 403 =>
              resp.body.error = ErrOwnerNotAllowed(repository[1])

\* C10: ValidateOwnerAllowed with an empty (or nil) allow-list returns nil for
\* every repository.
C10_EmptyAllowlist ==
  ( /\ unit.fn = "ValidateOwnerAllowed"
    /\ unit.done
    /\ Len(unit.allowedOwners) = 0 ) => unit.result = Nil

\* C10 witness: a repository of another owner was accepted under the empty list
C10_Witness ==
  /\ unit.fn = "ValidateOwnerAllowed" /\ unit.done
  /\ unit.allowedOwners = <<>>
  /\ unit.repository = <<"evil", "repo">>
  /\ unit.result = Nil

\* C11: when every step succeeded the response is 200 with a JSON body of
\* exactly the minted token string, its expiry as hour, minute and second of
\* the minted instant, and a scopes map equal to the scope map parsed from
\* the query (same identifiers, same levels), whatever more the installation
\* is granted; and a 200 response is written in no other case.
C11_SuccessResponse ==
  /\ (pc = "done" /\ issued # NoToken /\ err = Nil) => resp.status = 200
  /\ resp.status = 200 =>
       /\ pc = "done" /\ issued # NoToken /\ err = Nil
       /\ resp.contentType = "application/json"
       /\ DOMAIN resp.body = {"token", "expires_at", "scopes"}
       /\ resp.body.token = issued.token
       /\ resp.body.token # ""
       /\ LET x == resp.body.expires_at
          IN  /\ Len(x) = 3
              /\ x[1] \in 0..23 /\ x[2] \in 0..59 /\ x[3] \in 0..59
              /\ x[1] * 3600 + x[2] * 60 + x[3] = issued.expires
       /\ resp.body.scopes = scopes
       /\ resp.body.scopes = [p \in DOMAIN query |-> query[p][1]]

\* C11 witness: contents=write with the installation granted contents:write
\* and administration:read was answered 200 with scopes {contents: write}
C11_Witness ==
  /\ resp.status = 200
  /\ query = [p \in {"contents"} |-> <<"write">>]
  /\ granted = [id \in {"contents", "administration"} |->
                  IF id = "contents" THEN "write" ELSE "read"]
  /\ resp.body.scopes = [id \in {"contents"} |-> "write"]
  /\ resp.body.expires_at = <<23, 59, 59>>

Range(s) == {s[i] : i \in 1..Len(s)}

\* The collaborator call made last
LastCall == IF calls = <<>> THEN "" ELSE calls[Len(calls)]

\* C12: a request that ended at the installation lookup was answered 403 with
\* the "not installed" error when the integration is not installed for the
\* subject, and 503 "GitHub API error" for any other failure of the lookup;
\* no later step ran: no permissions were fetched and no token was minted.
C12_InstallationFailureSplit ==
  (pc = "done" /\ LastCall = "GetInstallationID") =>
    /\ resp \in
         {WriteError(403, ErrNotInstalled(repository), Nil)} \cup
         {WriteError(503, <<"GitHub API error: ">> \o e, Nil) :
            e \in {ErrAPI, ErrDeadline}}
    /\ granted = <<>>
    /\ issued = NoToken
    /\ err = Nil

\* C12 witness: the lookup for acme/widgets found no installation: 403
C12_Witness ==
  /\ pc = "done"
  /\ LastCall = "GetInstallationID"
  /\ repository = <<"acme", "widgets">>
  /\ resp = WriteError(403, ErrNotInstalled(<<"acme", "widgets">>), Nil)

\* C13 (as claimed): a request that ended because the fetch of the granted
\* permissions failed was answered 403 with the "not installed" error when
\* the integration is not installed, and 503 "GitHub API error" otherwise.
C13_PermissionFetchFailureSplit ==
  ( /\ pc = "done"
    /\ LastCall = "GetInstallationPermissions"
    /\ err # Nil
    /\ ~ErrContains(err, "insufficient permissions") ) =>
    resp = IF ErrContains(err, "not installed")
           THEN WriteError(403, err, Nil)
           ELSE WriteError(503, <<"GitHub API error: ">> \o err, Nil)

\* C14: a request that ended because the authority refused to mint the token
\* was answered 403 with the "suspended" error when the authority signalled
\* a suspended installation, and 503 "GitHub API error" for any other error
\* of the authority; the body carries an error and no token.
C14_CredentialFailureSplit ==
  (pc = "done" /\ LastCall = "CreateInstallationToken" /\ issued = NoToken) =>
    /\ err \in {ErrSuspended, ErrAPI, ErrDeadline}
    /\ err = ErrSuspended => resp = WriteError(403, ErrSuspended, Nil)
    /\ err # ErrSuspended =>
         resp = WriteError(503, <<"GitHub API error: ">> \o err, Nil)
    /\ "token" \notin DOMAIN resp.body

\* C14 witness: the authority answered that the installation is suspended
C14_Witness ==
  /\ pc = "done"
  /\ LastCall = "CreateInstallationToken"
  /\ err = ErrSuspended
  /\ resp.status = 403

\* The collaborator calls of one request in the order of the code
CollaboratorOrder ==
  <<"ValidateAndExtractRepository", "GetPrivateKey", "GetInstallationID",
    "GetInstallationPermissions", "CreateInstallationToken">>

IsPrefix(s, t) == Len(s) <= Len(t) /\ s = SubSeq(t, 1, Len(s))

\* C15: the collaborator calls of a request are a prefix of identity
\* verification, signing-key fetch, installation lookup, permission fetch,
\* credential issue: each at most once, one per step, in that order.  Once a
\* response is written nothing more happens; once a step of the exchange has
\* failed the next step is the answer, which makes no call, mints nothing and
\* carries that failure's message.  A response other than 200 carries an
\* error and no token.
C15_StrictSequence ==
  /\ [](IsPrefix(calls, CollaboratorOrder))
  /\ [](resp # NoResponse <=> pc = "done")
  /\ [](resp.status \notin {0, 200} =>
          /\ "error" \in DOMAIN resp.body
          /\ "token" \notin DOMAIN resp.body
          /\ resp.status >= 400)
  /\ [][pc # "done"]_vars
  /\ [][calls' # calls => Len(calls') = Len(calls) + 1]_vars
  /\ [][err # Nil =>
          /\ calls' = calls
          /\ issued' = issued
          /\ pc' = "done"
          /\ resp'.status \in {403, 503}
          /\ \/ resp'.body.error = err
             \/ resp'.body.error = <<"GitHub API error: ">> \o err]_vars

\* C15 witness: the installation lookup failed after identity verification
\* and the signing-key fetch; the request ended there with 503
C15_Witness ==
  /\ pc = "done"
  /\ calls = SubSeq(CollaboratorOrder, 1, 3)
  /\ resp = WriteError(503, <<"GitHub API error: ">> \o ErrAPI, Nil)
  /\ issued = NoToken

\* C16: every request eventually has its response; a step of the exchange
\* (installation lookup, permission fetch, credential issue) cut off by the
\* request's deadline is answered 503 "GitHub API error: context deadline
\* exceeded", no token is minted after it, and a 200 response is never
\* written after a step that failed.
C16_BoundedTimeout ==
  /\ <>(pc = "done" /\ resp # NoResponse)
  /\ [](ErrContains(err, "context deadline exceeded") =>
          /\ issued = NoToken
          /\ resp \in {NoResponse,
                        WriteError(503, <<"GitHub API error: ">> \o ErrDeadline,
                                   Nil)})
  /\ []((/\ resp # NoResponse
         /\ "error" \in DOMAIN resp.body
         /\ ExchangeCalls # {}
         /\ ErrContains(resp.body.error, "context deadline exceeded")) =>
          /\ resp.status = 503
          /\ LastCall \in {"GetInstallationID", "GetInstallationPermissions",
                           "CreateInstallationToken"}
          /\ issued = NoToken)
  /\ [](resp.status = 200 => err = Nil)

\* C16 witness: the deadline expired while the authority was minting the
\* token and the request was answered 503
C16_Witness ==
  /\ pc = "done"
  /\ LastCall = "CreateInstallationToken"
  /\ err = ErrDeadline
  /\ resp.status = 503

\* strings.ToLower on the scheme prefixes the model draws
SchemeToLower(s) == IF s = "Bearer " THEN "bearer " ELSE s

\* C17 (as claimed): a header whose scheme is the word Bearer in any case,
\* followed by a token, is not answered 401 "invalid Authorization header
\* format" and goes on to identity verification as "Bearer <token>" does.
C17_BearerCaseInsensitive ==
  ( /\ authHeader # <<>>
    /\ SchemeToLower(authHeader[1]) = "bearer "
    /\ Tail(authHeader) # <<>> ) =>
    /\ resp # WriteError(401,
           <<"invalid Authorization header format (expected 'Bearer <token>')">>,
           Nil)
    /\ pc = "identity" \/ "ValidateAndExtractRepository" \in Range(calls)

\* The request is past identity verification
PastIdentity ==
  \/ pc \notin {"path", "method", "auth", "identity", "done"}
  \/ query # <<>>
  \/ scopes # <<>>
  \/ ExchangeCalls # {}
  \/ pc = "done" /\ resp.status \notin {401, 404, 405}

\* C18: a request without an Authorization header is answered 401 "missing
\* Authorization header", one whose header does not start with "Bearer " is
\* answered 401 "invalid Authorization header format", one whose token fails
\* verification is answered 401 "invalid OIDC token"; in each case the query
\* was never parsed, no scope map was built and no call of the exchange was
\* made.  A request past identity verification has a verified owner/repo
\* subject.
C18_IdentityGate ==
  /\ (pc = "done" /\ path = "/token" /\ method = "POST" /\ authHeader = <<>>) =>
       resp = WriteError(401, <<"missing Authorization header">>, Nil)
  /\ (authHeader # <<>> /\ authHeader[1] # "Bearer ") =>
       resp = WriteError(401,
         <<"invalid Authorization header format (expected 'Bearer <token>')">>,
         Nil)
  /\ (pc = "done" /\ LastCall = "ValidateAndExtractRepository"
        /\ repository = <<>>) =>
       /\ resp.status = 401
       /\ Head(resp.body.error) = "invalid OIDC token: "
  /\ (pc = "done" /\ resp.status = 401) =>
       query = <<>> /\ scopes = <<>> /\ ExchangeCalls = {} /\ repository = <<>>
  /\ PastIdentity =>
       /\ Len(repository) >= 2
       /\ authHeader # <<>> /\ authHeader[1] = "Bearer "
       /\ Tail(authHeader) # <<>>
       /\ Head(calls) = "ValidateAndExtractRepository"

\* C18 witness: the token failed verification and the request ended with 401
\* before anything was parsed
C18_Witness ==
  /\ pc = "done"
  /\ calls = <<"ValidateAndExtractRepository">>
  /\ resp = WriteError(401,
       <<"invalid OIDC token: ", "token validation failed: ",
         "token is expired">>, Nil)
  /\ query = <<>>

\* C19: a request for a path other than /token is answered 404 and a request
\* for /token with a method other than POST is answered 405, each with a JSON
\* error body, without reading the Authorization header or verifying an
\* identity; identity verification is reached only by POST /token.
C19_MethodAndPath ==
  /\ path \notin {"", "/token"} =>
       /\ resp = WriteError(404, <<"not found">>, Nil)
       /\ resp.contentType = "application/json"
       /\ pc = "done"
       /\ calls = <<>> /\ authHeader = <<>>
  /\ method \notin {"", "POST"} =>
       /\ resp = WriteError(405, <<"method not allowed">>, Nil)
       /\ resp.contentType = "application/json"
       /\ pc = "done"
       /\ calls = <<>> /\ authHeader = <<>>
  /\ (pc = "identity" \/ calls # <<>>) => path = "/token" /\ method = "POST"

\* C19 witness: GET /token was answered 405
C19_Witness ==
  /\ path = "/token"
  /\ method = "GET"
  /\ resp.status = 405
  /\ "error" \in DOMAIN resp.body

\* No HTTP fetch of this round has failed
FetchesSucceeded == \A i \in 1..Len(httpFetches) : httpFetches[i][2]

\* C20: in a round of concurrent calls that began with the cache empty or
\* expired and in which no HTTP fetch failed, at most one HTTP fetch is made,
\* by the caller that took the exclusive lock first, and once any caller has
\* returned exactly one was made and that caller holds the fresh cached key
\* set; the callers that took the exclusive lock later returned the cache
\* without fetching.  A round that began with a fresh cache makes no fetch.
C20_SingleFetch ==
  /\ (staleAtStart /\ FetchesSucceeded) =>
       /\ Len(httpFetches) <= 1
       /\ httpFetches # <<>> => httpFetches[1][1] = lockOrder[1]
       /\ \A c \in Callers :
            fetchPc[c] = "returned" =>
              /\ Len(httpFetches) = 1
              /\ CacheFresh
              /\ fetchResult[c] = [jwks |-> jwksCache, err |-> Nil]
  /\ ~staleAtStart => httpFetches = <<>> /\ lockOrder = <<>>

\* C20 witness: with the cache expired every caller took the exclusive lock
\* in turn, one fetched, and all returned the new key set
C20_Witness ==
  /\ staleAtStart
  /\ jwksCache >= 2
  /\ \A c \in Callers : fetchPc[c] = "returned"
  /\ Len(lockOrder) = MaxCallers
  /\ Len(httpFetches) = 1
  /\ FetchesSucceeded
  /\ \A c \in Callers : fetchResult[c].jwks = jwksCache

Validated ==
  pc \in {"config", "key", "jwt", "installation", "permissions", "subset",
          "mint", "exact", "respond"}
    \/ ExchangeCalls # {} \/ (pc = "done" /\ resp.status \in {200, 403, 500, 503})

\* C23: no scope identifier is both in BlacklistedScopes and a key of
\* AllowedScopes, in every state of a request; the scope map a request
\* carries past validation holds only keys of AllowedScopes and none of
\* BlacklistedScopes.
C23_PolicyDisjoint ==
  /\ BlacklistedScopes \cap DOMAIN AllowedScopes = {}
  /\ Validated =>
       /\ DOMAIN scopes \subseteq DOMAIN AllowedScopes
       /\ DOMAIN scopes \cap BlacklistedScopes = {}

\* C23 witness: a request for contents passed validation against the tables
C23_Witness ==
  /\ Validated
  /\ "contents" \in DOMAIN scopes
  /\ "contents" \in DOMAIN AllowedScopes
  /\ "contents" \notin BlacklistedScopes

\* The scopes the policy keeps read-only for security
SecurityScopes == {"administration", "secret_scanning"}

\* C24 (as claimed): a request asking write for administration or
\* secret_scanning is answered 400 "permission 'write' not allowed" for that
\* scope.
C24_WriteAlwaysPermissionNotAllowed ==
  \A id \in SecurityScopes :
    (pc = "done" /\ Parsed /\ id \in DOMAIN query /\ query[id] = <<"write">>) =>
      /\ resp.status = 400
      /\ \E s \in SecurityScopes :
           resp.body.error = ErrPermissionNotAllowed("write", s, <<"read">>)

\* C24 (amended): administration and secret_scanning permit exactly the level
\* read; a request asking write for one of them never passes validation,
\* makes no call of the exchange and is answered 400, with "permission
\* 'write' not allowed" for such a scope whenever no other parameter is
\* refused; no 200 response echoes write for either.
C24_SecurityScopesReadOnly ==
  /\ \A id \in SecurityScopes :
       id \in DOMAIN AllowedScopes /\ AllowedScopes[id] = <<"read">>
  /\ \A id \in SecurityScopes :
       (Parsed /\ id \in DOMAIN query /\ query[id] = <<"write">>) =>
         /\ ~Validated
         /\ ExchangeCalls = {}
         /\ pc = "done" =>
              /\ resp.status = 400
              /\ (\A p \in DOMAIN query :
                    /\ ParamCheck(p, query[p]) = Nil
                    /\ p \notin SecurityScopes => ~PolicyRefuses(p, query[p][1]))
                 => \E s \in SecurityScopes \cap DOMAIN query :
                      /\ query[s] = <<"write">>
                      /\ resp.body.error =
                           ErrPermissionNotAllowed("write", s, <<"read">>)
  /\ resp.status = 200 =>
       \A id \in SecurityScopes \cap DOMAIN resp.body.scopes :
         resp.body.scopes[id] = "read"

\* C24 witness: secret_scanning=write was answered 400 after the identity
\* check alone
C24_Witness ==
  /\ pc = "done"
  /\ query = [p \in {"secret_scanning"} |-> <<"write">>]
  /\ resp = WriteError(400,
       ErrPermissionNotAllowed("write", "secret_scanning", <<"read">>), Nil)
  /\ calls = <<"ValidateAndExtractRepository">>


\* C25: every repository that ValidateAndExtractRepository returned without an
\* error holds the separator "/" and a non-empty owner before it, and a
\* request whose repository claim was refused is answered 401 with no
\* subject, no parsed scope and no call of the exchange.
C25_SubjectInvariant ==
  /\ PastIdentity =>
       /\ Len(repository) >= 2
       /\ repository[1] # ""
  /\ (pc = "done" /\ LastCall = "ValidateAndExtractRepository"
        /\ repository = <<>>) =>
       /\ resp.status = 401
       /\ query = <<>> /\ scopes = <<>> /\ ExchangeCalls = {}


AuthorityCalls ==
  Range(calls)
    \cap {"GetInstallationID", "GetInstallationPermissions", "CreateInstallationToken"}

\* C27: a request that ends while the project ID is read, the signing key is
\* fetched or the app JWT is signed is answered 500 with an error message and
\* no token ("GCP project ID not configured", the key fetch's own error,
\* "failed to create JWT: ..."); every 500 response comes from one of these
\* three steps, and the request made no call to the authority.
C27_InternalFailures ==
  /\ [][(pc \in {"config", "key", "jwt"} /\ pc' = "done") =>
          /\ resp'.status = 500
          /\ resp'.body.error # Nil
          /\ "token" \notin DOMAIN resp'.body
          /\ pc = "config" =>
               resp' = WriteError(500, <<"GCP project ID not configured">>, Nil)
          /\ pc = "jwt" => Head(resp'.body.error) = "failed to create JWT: "
          /\ AuthorityCalls' = {}]_vars
  /\ [](resp.status = 500 =>
          /\ pc = "done"
          /\ AuthorityCalls = {}
          /\ issued = NoToken /\ granted = <<>>
          /\ repository # <<>> /\ scopes # <<>>)
  /\ [][resp'.status = 500 /\ resp.status # 500 =>
          pc \in {"config", "key", "jwt"}]_vars

\* C27 witness: the signing key could not be fetched; the request ended with
\* 500 after GetPrivateKey and nothing was asked of the authority
C27_Witness ==
  /\ pc = "done"
  /\ resp.status = 500
  /\ LastCall = "GetPrivateKey"
  /\ AuthorityCalls = {}


\* C29: with a non-empty allow-list ValidateOwnerAllowed refuses a repository
\* without "/" as an invalid format, and otherwise takes the text before the
\* first "/" as the owner and returns nil exactly when that text equals an
\* entry of the list, letter case included; segments after owner/repo do not
\* matter, and an empty owner is refused as not allowed.
C29_OwnerMatch ==
  ( /\ unit.fn = "ValidateOwnerAllowed"
    /\ unit.done
    /\ Len(unit.allowedOwners) > 0 ) =>
    LET repo == unit.repository
        entries == Range(unit.allowedOwners)
    IN  /\ Len(repo) < 2 => unit.result = ErrInvalidRepositoryFormat(repo)
        /\ Len(repo) >= 2 =>
             /\ unit.result = Nil <=> repo[1] \in entries
             /\ unit.result # Nil => unit.result = ErrOwnerNotAllowed(repo[1])
        /\ (repo = <<"acme", "widgets", "extra">> /\ "acme" \in entries) =>
             unit.result = Nil
        /\ (repo = <<"Acme", "widgets">> /\ entries = {"acme"}) =>
             unit.result = ErrOwnerNotAllowed("Acme")
        /\ repo = <<"", "widgets">> => unit.result = ErrOwnerNotAllowed("")

\* C29 witness: owner/repo/extra passed under a list holding its owner and
\* another entry
C29_Witness ==
  /\ unit.fn = "ValidateOwnerAllowed" /\ unit.done
  /\ unit.repository = <<"acme", "widgets", "extra">>
  /\ unit.allowedOwners = <<"other", "acme">>
  /\ unit.result = Nil


\* C30: ValidateScopes returns an error exactly when some requested (id,
\* level) is denied, has no entry in the permit mapping or asks a level its
\* entry does not permit, whichever order the map is ranged in; the empty map
\* gets nil; an error names exactly one requested id, and that id is one of
\* the violating ones.
C30_ErrorIffViolation ==
  (unit.fn = "ValidateScopes" /\ unit.done) =>
    LET s == unit.scopes
        a == unit.allowed
        b == unit.blacklisted
        e == unit.result
        Violating == {id \in DOMAIN s :
                        \/ id \in b
                        \/ id \notin DOMAIN a
                        \/ s[id] \notin Range(a[id])}
        Named == {id \in DOMAIN s : id \in Range(e)}
    IN  /\ e # Nil <=> Violating # {}
        /\ DOMAIN s = {} => e = Nil
        /\ e # Nil => Cardinality(Named) = 1 /\ Named \subseteq Violating

\* C30 witness: two requested scopes violate the policy of scopes.go and the
\* error names one of them
C30_Witness ==
  /\ unit.fn = "ValidateScopes" /\ unit.done
  /\ unit.allowed = AllowedScopes /\ unit.blacklisted = BlacklistedScopes
  /\ unit.scopes = [contents |-> "admin", organization_administration |-> "read"]
  /\ unit.result = ErrScopeNotInAllowlist("organization_administration")


\* The Scope ID column of the README's table of allowed repository
\* permission scopes
ReadmeScopeIds ==
  {"actions", "administration", "attestations", "checks", "statuses",
   "contents", "dependabot_secrets", "deployments", "discussions",
   "environments", "issues", "merge_queues", "packages", "pages", "projects",
   "pull_requests", "secret_scanning", "secrets", "workflows"}

\* expectedCount of TestAllowedScopes_ExpectedCount
ExpectedCount == 19

\* orgScopes of TestAllowedScopes_NoOrganizationScopes
OrgScopes ==
  {"organization_administration", "organization_custom_roles",
   "organization_hooks", "organization_packages", "organization_plan",
   "organization_projects", "organization_secrets",
   "organization_self_hosted_runners", "organization_user_blocking",
   "members"}

\* C31: AllowedScopes holds exactly 19 scope identifiers, those of the
\* README's table, each with a non-empty list of levels without repetition
\* drawn from read and write, and holds no organization-level scope; a
\* request that passed validation asks only for scopes of that table.
C31_PermitMappingContents ==
  /\ Cardinality(DOMAIN AllowedScopes) = ExpectedCount
  /\ DOMAIN AllowedScopes = ReadmeScopeIds
  /\ \A id \in DOMAIN AllowedScopes :
       LET permissions == AllowedScopes[id]
       IN  /\ Len(permissions) > 0
           /\ Range(permissions) \subseteq {"read", "write"}
           /\ Cardinality(Range(permissions)) = Len(permissions)
  /\ DOMAIN AllowedScopes \cap OrgScopes = {}
  /\ Validated => DOMAIN scopes \subseteq ReadmeScopeIds \ OrgScopes


\* C32: ParseAllowedOwners returns the trimmed parts of the comma-separated
\* value that are not empty, in their order: no entry is empty or padded with
\* whitespace, and a value whose parts are all empty or whitespace gives the
\* empty list, under which ValidateOwnerAllowed accepts every repository.
C32_ParseAllowedOwners ==
  (unit.fn = "ParseAllowedOwners" /\ unit.done) =>
    LET parts == unit.envParts
        owners == unit.result
        trimmed == [i \in 1..Len(parts) |-> TrimSpace(parts[i])]
    IN  /\ owners = SelectSeq(trimmed, LAMBDA part : part # "")
        /\ \A i \in 1..Len(owners) :
             owners[i] \notin {"", " ", " acme ", "acme "}
        /\ Range(parts) \subseteq {"", " "} =>
             owners = <<>> /\ unit.verdict = Nil
        /\ Range(parts) \cap {"acme", " acme ", "acme ", "other"} # {} =>
             owners # <<>>

\* C32 witness: " acme ,,other" gives acme, other
C32_Witness ==
  /\ unit.fn = "ParseAllowedOwners" /\ unit.done
  /\ unit.envParts = <<" acme ", "", "other">>
  /\ unit.result = <<"acme", "other">>


\* C34: when the data cannot be encoded, writeJSON answers 500 with the text
\* "internal server error: failed to encode response" whatever status was
\* asked for; data that can be encoded is written with the status asked for
\* as application/json.  The response is written by one call and not written
\* again.
C34_EncodeFailure ==
  /\ []((unit.fn = "writeJSON" /\ unit.done) =>
          /\ unit.data = Channel =>
               /\ resp.status = 500
               /\ resp.body = EncodeFailure
               /\ resp.contentType = "text/plain"
          /\ unit.data # Channel =>
               /\ resp.status = unit.statusCode
               /\ resp.body = unit.data
               /\ resp.contentType = "application/json")
  /\ []((unit.fn = "writeJSON" /\ ~unit.done) => resp = NoResponse)
  /\ [][(unit.fn = "writeJSON" /\ resp # NoResponse) => resp' = resp]_vars

\* C34 witness: writeJSON(w, 200, make(chan int)) answered 500
C34_Witness ==
  /\ unit.fn = "writeJSON" /\ unit.done
  /\ unit.statusCode = 200 /\ unit.data = Channel
  /\ resp.status = 500


\* C33: a request's response is written once: none is written before the
\* handler returns, the handler returns on every path, it has written one
\* when it returns, and a written response is never written over.  Every
\* response is application/json and its body is either the token object
\* (200: token, expires_at, scopes) or an error object (400 and above: a
\* non-empty error text and no token).
C33_OneJSONResponse ==
  /\ <>(pc = "done")
  /\ [](pc = "done" <=> resp # NoResponse)
  /\ [][resp # NoResponse => resp' = resp]_vars
  /\ [](resp # NoResponse =>
          /\ resp.contentType = "application/json"
          /\ resp.body # EncodeFailure
          /\ \/ /\ resp.status = 200
                /\ DOMAIN resp.body = {"token", "expires_at", "scopes"}
             \/ /\ resp.status \in {400, 401, 403, 404, 405, 500, 503}
                /\ DOMAIN resp.body = {"error", "details"}
                /\ resp.body.error # Nil
                /\ resp.body.details = Nil)

\* C33 witness: a GET /token was answered 405 as application/json
C33_Witness ==
  /\ pc = "done"
  /\ method = "GET"
  /\ resp.status = 405
  /\ resp.contentType = "application/json"
  /\ resp.body.error = <<"method not allowed">>


\* The steps of TokenHandler in the order of its statements
StepOrder ==
  <<"path", "method", "auth", "identity", "parse", "validate", "config",
    "key", "jwt", "installation", "permissions", "subset", "mint", "exact",
    "respond", "done">>

StepIndex(step) == CHOOSE i \in 1..Len(StepOrder) : StepOrder[i] = step

\* The calls of a request that TokenHandler makes itself
HandlerCalls ==
  SelectSeq(calls, LAMBDA c : c # "GetInstallationPermissions")

\* C35: a 200 response echoes a non-empty scopes map in which every scope is
\* a key of AllowedScopes, is not in BlacklistedScopes and has a level its
\* entry permits.  It is written by the last step only, the steps run one
\* after another in the order identity verification, scope parsing, policy
\* validation, signing-key fetch, installation lookup, credential issue (a
\* failure inside the credential issue goes straight to the answer), and
\* each of them succeeded: the subject was verified, the scopes were parsed
\* from the query, and the calls were made once each in that order.
C35_SuccessOnlyAfterAllChecks ==
  /\ [](resp.status = 200 =>
          /\ DOMAIN resp.body.scopes # {}
          /\ \A id \in DOMAIN resp.body.scopes :
               /\ id \in DOMAIN AllowedScopes
               /\ id \notin BlacklistedScopes
               /\ resp.body.scopes[id] \in Range(AllowedScopes[id])
          /\ Len(repository) >= 2
          /\ DOMAIN query = DOMAIN resp.body.scopes
          /\ HandlerCalls = <<"ValidateAndExtractRepository", "GetPrivateKey",
                              "GetInstallationID", "CreateInstallationToken">>
          /\ issued # NoToken /\ err = Nil)
  /\ [][pc' # pc =>
          \/ pc' = "done"
          \/ StepIndex(pc') = StepIndex(pc) + 1
          \/ /\ pc \in {"permissions", "subset", "mint"}
             /\ pc' = "respond" /\ err' # Nil]_vars
  /\ [][(resp'.status = 200 /\ resp.status # 200) => pc = "respond"]_vars

\* C35 witness: contents=write and administration=read were both echoed in a
\* 200 response after the four calls
C35_Witness ==
  /\ pc = "done"
  /\ resp.status = 200
  /\ resp.body.scopes = [contents |-> "write", administration |-> "read"]
  /\ Len(calls) = 5


\* Every HTTP fetch of this round has failed
FetchesFailed == \A i \in 1..Len(httpFetches) : ~httpFetches[i][2]

\* C36: a failed HTTP fetch leaves the cached key set and its time as they
\* were and its caller returns an error and no key set; a call that returns
\* a key set returns the cached one while it is fresh, never an expired one;
\* and while every fetch of a round that began without a fresh cache has
\* failed, each caller that returned made a fetch of its own, in the order
\* the exclusive lock was taken, and returned an error.
C36_FailedRefresh ==
  /\ [][(Len(httpFetches') = Len(httpFetches) + 1
           /\ ~httpFetches'[Len(httpFetches')][2]) =>
          LET c == httpFetches'[Len(httpFetches')][1]
          IN  /\ jwksCache' = jwksCache
              /\ jwksCacheTime' = jwksCacheTime
              /\ fetchPc'[c] = "returned"
              /\ fetchResult'[c].jwks = 0
              /\ fetchResult'[c].err # Nil
              /\ jwksMutex'.writer = 0]_vars
  /\ [](\A c \in Callers :
          (fetchPc[c] = "returned" /\ fetchResult[c].err = Nil) =>
            /\ CacheFresh
            /\ fetchResult[c].jwks = jwksCache)
  /\ []((staleAtStart /\ FetchesFailed) =>
          /\ ~CacheFresh
          /\ \A c \in Callers :
               fetchPc[c] = "returned" =>
                 /\ fetchResult[c].err # Nil
                 /\ \E i \in 1..Len(httpFetches) : httpFetches[i] = <<c, FALSE>>
          /\ \A i \in 1..Len(httpFetches) : httpFetches[i][1] = lockOrder[i])

\* C36 witness: the cached key set had expired, every caller's own fetch
\* failed in turn, every caller returned an error and the expired key set is
\* still the cached one
C36_Witness ==
  /\ jwksCache # 0 /\ ~CacheFresh
  /\ \A c \in Callers : fetchPc[c] = "returned" /\ fetchResult[c].err # Nil
  /\ Len(httpFetches) = MaxCallers
  /\ FetchesFailed


\* C37: every fetchJWKS call that has started returns; some step can always
\* be taken; a caller holds the shared lock only while it reads the cache
\* and the exclusive lock only from Lock() to its return, so a caller that
\* returned holds nothing; shared and exclusive holders never coexist; the
\* cached key set and its time are written only by the holder of the
\* exclusive lock, in one step, the time being the time of the write; and a
\* key set a call returns is the cached one, younger than the cache duration.
C37_LockDiscipline ==
  /\ \A c \in Callers :
       (fetchPc[c] \notin {"idle", "returned"}) ~> (fetchPc[c] = "returned")
  /\ [](ENABLED JWKSNext)
  /\ [](\A c \in Callers :
          /\ c \in jwksMutex.readers <=> fetchPc[c] = "rcheck"
          /\ jwksMutex.writer = c <=> fetchPc[c] \in {"wcheck", "request", "store"})
  /\ [](jwksMutex.writer # 0 => jwksMutex.readers = {})
  /\ [][(jwksCache' # jwksCache \/ jwksCacheTime' # jwksCacheTime) =>
          /\ jwksMutex.writer # 0
          /\ fetchPc[jwksMutex.writer] = "store"
          /\ jwksCache' # jwksCache
          /\ jwksCacheTime' = clock]_vars
  /\ [](\A c \in Callers :
          fetchResult[c].jwks # 0 =>
            /\ fetchResult[c].jwks = jwksCache
            /\ clock - jwksCacheTime < JwksCacheDuration)

\* C37 witness: one caller returned an error, having released the exclusive
\* lock, and the other holds the exclusive lock after it
C37_Witness ==
  /\ \E c \in Callers :
       /\ fetchPc[c] = "returned" /\ fetchResult[c].err # Nil
       /\ jwksMutex.writer \notin {0, c}
  /\ Len(lockOrder) = 2


\* C38: a request whose identity verification could not obtain the issuer's
\* key set (the JWKS request failed, or the request's context expired during
\* it) is answered 401 "invalid OIDC token: failed to fetch JWKS: ...", never
\* 503, with no subject, no parsed query, no scope map and no call of the
\* exchange; a 503 is only ever the answer to a failed call of the authority.
C38_KeySetFailureIsUnauthorized ==
  /\ [][(pc = "identity" /\ pc' = "done") =>
          /\ resp'.status = 401
          /\ Head(resp'.body.error) = "invalid OIDC token: "]_vars
  /\ []((resp # NoResponse /\ "error" \in DOMAIN resp.body
            /\ ErrContains(resp.body.error, "failed to fetch JWKS: ")) =>
          /\ resp.status = 401
          /\ SubSeq(resp.body.error, 1, 2) =
               <<"invalid OIDC token: ", "failed to fetch JWKS: ">>
          /\ calls = <<"ValidateAndExtractRepository">>
          /\ repository = <<>> /\ query = <<>> /\ scopes = <<>>
          /\ ExchangeCalls = {})
  /\ [](resp.status = 503 =>
          LastCall \in {"GetInstallationID", "GetInstallationPermissions",
                        "CreateInstallationToken"})

\* C38 witness: the request's context expired while the key set was fetched
\* and the request was answered 401
C38_Witness ==
  /\ pc = "done"
  /\ resp = WriteError(401, <<"invalid OIDC token: ", "failed to fetch JWKS: ",
                              "failed to fetch JWKS: ",
                              "context deadline exceeded">>, Nil)
  /\ calls = <<"ValidateAndExtractRepository">>

====
